---- MODULE Spec2Model ----
(***************************************************************************)
(* A model of SupIRvisor's record-linkage engine.                          *)
(*                                                                         *)
(*   SpecClient : the cached API client (SemanticScholarQuerier): sessions *)
(*                opened with __enter__, requests made by __get_json, the  *)
(*                retry on rate limit, the cache file written by __exit__. *)
(*   SpecClientFair : one session of the client under an API that stops   *)
(*                rate limiting, for the termination of the retry.         *)
(*   SpecLinker : get_author_data, the loop that resolves the authors of   *)
(*                every paper and writes their ids on the authorships.     *)
(*                                                                         *)
(*   SpecQuery  : the search methods of the client, which turn a query     *)
(*                string into a request url.                               *)
(*   SpecMatcher: the paper matcher, search_paper of semantic_scholar.py   *)
(*                and get_paper of author_info.py: the cascade of searches *)
(*                for one paper and the choice among the candidates.       *)
(*   SpecAuthorMatch : the author matcher, search_author_by_name of        *)
(*                semantic_scholar.py and search_author of author_info.py. *)
(*   SpecName   : the name distance, Name.distance of data.py and          *)
(*                name_distance of author_info.py, on a pair of names, and *)
(*                is_initialed of both files.                              *)
(*   SpecThreeAuthors, SpecLinkerRequests : get_author_data on one paper   *)
(*                of three authors, and with the requests it makes.        *)
(*                                                                         *)
(* Every specification constrains all the variables; the variables of the  *)
(* component a specification is not about stay at their idle value.        *)
(***************************************************************************)
EXTENDS Integers, Sequences, FiniteSets, TLC

VARIABLES
    \* ---- the cached API client ----
    cacheFile,   \* the file at cache_path: [exists, bytes]
    cache,       \* SemanticScholarQuerier._cache: request url -> json body
    pc,          \* where the session is: closed, open, fetching, sleeping, raising
    cur,         \* resource_url of the __get_json call in progress
    outcome,     \* what the last __get_json call gave its caller
    netLog,      \* the network contacts of this session, in order
    loaded,      \* the cache as it was right after __enter__
    stored,      \* the cache as it was at the last __exit__
    writes,      \* how many times this session wrote the cache file
    sleeps,      \* how many times the call in progress slept
    rateLimits,  \* how many 429 answers the call in progress received
    exitKind,    \* how the last session ended: none, normal, raised
    sessions,    \* sessions opened so far
    calls,       \* __get_json calls made in this session
    \* ---- get_author_data ----
    papers,          \* the input list: each paper the list of its authorships
    authors,         \* the list of Author objects the run returns
    seen_author_ids, \* ids already extracted
    corrected_ids,   \* dict: id as listed (or None) -> id of the Author found
    paper_idx,       \* position in papers of the paper being processed
    paper_json,      \* the external record of that paper, or NoPaper
    author_jsons,    \* author records the API has answered: id -> record
    lpc,             \* where the run is: idle, paper, entry, done, raised
    \* ---- the searches: query strings, paper matcher, author matcher ----
    queries,         \* the searches made so far, in order
    impl,            \* the paper matcher running: search_paper or get_paper
    paper,           \* the local paper being searched: title, authorships
    title,           \* get_paper: the title as truncated so far
    trunc_i,         \* _get_paper_candidates: i, the words the next query drops
    paper_candidates,\* the candidates the cascade of searches ended with
    paper_response,  \* what the paper matcher returned
    spc,             \* where the matcher is in its cascade
    target_paper,    \* author matcher: the authors of the external paper
    retrieved_authors, \* the candidates the author search returned
    author_score,    \* dict in insertion order: candidate id, score
    matching_author, \* what the author matcher returned
    apc,             \* where the author matcher is: idle, call, done, raised
    self_name,       \* name distance: the first name, as passed
    other_name,      \* the second name, as passed
    distance_result, \* what the name distance gave: a value or an exception
    initialed_result, \* what is_initialed gave for the first name
    npc              \* where the name functions are: idle, call, done, asked

clientVars == <<cacheFile, cache, pc, cur, outcome, netLog, loaded, stored,
                writes, sleeps, rateLimits, exitKind, sessions, calls>>

linkerVars == <<papers, authors, seen_author_ids, corrected_ids, paper_idx,
                paper_json, author_jsons, lpc>>

matcherVars == <<impl, paper, title, trunc_i, paper_candidates,
                 paper_response, spc>>

authorVars == <<target_paper, retrieved_authors, author_score,
                matching_author, apc>>

nameVars == <<self_name, other_name, distance_result, initialed_result, npc>>

searchVars == <<queries, matcherVars, authorVars, nameVars>>

vars == <<clientVars, linkerVars, searchVars>>

(***************************************************************************)
(* Bounds of the model.                                                    *)
(***************************************************************************)
MaxSessions == 2
MaxCalls == 3
MaxNet == 4
MaxPapers == 1
MaxAuthorships == 2
MaxExternalAuthors == 2

(***************************************************************************)
(* The cached API client.                                                  *)
(***************************************************************************)

\* Request urls, in the order the serialised cache lists them.
UrlSeq == <<"author/1", "author/2", "paper/search">>
Urls == {UrlSeq[i] : i \in 1..Len(UrlSeq)}

\* Json bodies the API may answer with; the API may answer the same url
\* differently at different times.
Bodies == {"json_a", "json_b"}

\* HTTP status codes of the API's answers.
RateLimited == 429
Statuses == {200, 429, 404, 500}

\* response.raise_for_status(): raises for a 4xx or 5xx status.
raise_for_status(status) == status >= 400 /\ status < 600

EmptyDict == [u \in {} |-> "json_a"]

NoOutcome == [kind |-> "none"]
Returned(body) == [kind |-> "return", body |-> body]
Raised(status) == [kind |-> "raise", status |-> status]

\* pickle.dump of a dict: the stream of its (key, value) items.
RECURSIVE DumpFrom(_, _)
DumpFrom(d, i) ==
    IF i > Len(UrlSeq) THEN <<>>
    ELSE IF UrlSeq[i] \in DOMAIN d
         THEN <<<<UrlSeq[i], d[UrlSeq[i]]>>>> \o DumpFrom(d, i + 1)
         ELSE DumpFrom(d, i + 1)

\* A dump that loses the first item of the stream.
pickle_dump_truncated(d) == DumpFrom(d, 2)

pickle_dump(d) == DumpFrom(d, 1)

\* pickle.load: the dict rebuilt item by item, a later item replacing an
\* earlier one of the same key.
RECURSIVE pickle_load(_)
pickle_load(bytes) ==
    IF bytes = <<>> THEN EmptyDict
    ELSE LET last == bytes[Len(bytes)]
         IN (last[1] :> last[2]) @@ pickle_load(SubSeq(bytes, 1, Len(bytes) - 1))

\* dict.update(other): other's items replace the dict's.
dict_update(d, other) == other @@ d

\* dict[key] = value
dict_set(d, key, value) == (key :> value) @@ d

NoFile == [exists |-> FALSE, bytes |-> <<>>]

\* No search is being made.
\* No paper is being searched.
MatcherIdleOtherThanImpl ==
    /\ paper = [title |-> <<>>, authorships |-> <<>>]
    /\ title = <<>>
    /\ trunc_i = 0
    /\ paper_candidates = <<>>
    /\ paper_response = [found |-> FALSE]
    /\ spc = "idle"

MatcherIdle ==
    /\ impl = "none"
    /\ MatcherIdleOtherThanImpl

AuthorIdle ==
    /\ target_paper = <<>>
    /\ retrieved_authors = <<>>
    /\ author_score = <<>>
    /\ matching_author = 0
    /\ apc = "idle"

NameIdle ==
    /\ self_name = <<>>
    /\ other_name = <<>>
    /\ distance_result = [raised |-> FALSE, value |-> 0]
    /\ initialed_result = FALSE
    /\ npc = "idle"

SearchIdle ==
    /\ queries = <<>>
    /\ MatcherIdle
    /\ AuthorIdle
    /\ NameIdle

InitClient ==
    /\ cacheFile = NoFile
    /\ cache = EmptyDict
    /\ pc = "closed"
    /\ cur = "none"
    /\ outcome = NoOutcome
    /\ netLog = <<>>
    /\ loaded = EmptyDict
    /\ stored = EmptyDict
    /\ writes = 0
    /\ sleeps = 0
    /\ rateLimits = 0
    /\ exitKind = "none"
    /\ sessions = 0
    /\ calls = 0
    \* get_author_data is not running
    /\ papers = <<>>
    /\ authors = <<>>
    /\ seen_author_ids = {}
    /\ corrected_ids = <<>>
    /\ paper_idx = 0
    /\ paper_json = [found |-> FALSE]
    /\ author_jsons = <<>>
    /\ lpc = "idle"
    /\ SearchIdle

\* An __enter__ that never reads the cache file.
EnterCacheNoLoad(file) == EmptyDict

\* SemanticScholarQuerier().__enter__(): a new querier, its cache empty,
\* loads the cache file when there is one.
EnterCache(file) ==
    IF file.exists THEN dict_update(EmptyDict, pickle_load(file.bytes))
    ELSE EmptyDict

Enter ==
    /\ pc = "closed"
    /\ sessions < MaxSessions
    /\ cache' = EnterCache(cacheFile)
    /\ loaded' = cache'
    /\ pc' = "open"
    /\ cur' = "none"
    /\ outcome' = NoOutcome
    /\ netLog' = <<>>
    /\ writes' = 0
    /\ sleeps' = 0
    /\ rateLimits' = 0
    /\ sessions' = sessions + 1
    /\ calls' = 0
    /\ UNCHANGED <<cacheFile, stored, exitKind>>
    /\ UNCHANGED <<linkerVars, searchVars>>

\* A lookup that never finds the url.
CacheHitNever(d, url) == FALSE

\* __get_json, lines 86-87: is the url answered from the cache?
CacheHit(d, url) == url \in DOMAIN d

\* __get_json(resource_url) called by the body of the session: a cached url
\* returns at once, any other goes to the network.
GetJson(url) ==
    /\ pc = "open"
    /\ calls < MaxCalls
    /\ calls' = calls + 1
    /\ cur' = url
    /\ sleeps' = 0
    /\ rateLimits' = 0
    /\ IF CacheHit(cache, url)
       THEN /\ outcome' = Returned(cache[url])
            /\ pc' = "open"
       ELSE /\ outcome' = NoOutcome
            /\ pc' = "fetching"
    /\ UNCHANGED <<cacheFile, cache, netLog, loaded, stored, writes, exitKind,
                   sessions>>
    /\ UNCHANGED <<linkerVars, searchVars>>

\* A __get_json that stores the body before it looks at the error status.
CacheAfterStoresErrors(d, url, status, body) ==
    IF status = RateLimited THEN d ELSE dict_set(d, url, body)

\* A __get_json that keeps the last response only.
CacheAfterKeepsLast(d, url, status, body) ==
    IF status = RateLimited \/ raise_for_status(status) THEN d
    ELSE dict_set(EmptyDict, url, body)

\* What __get_json stores when the API answered `status` with `body`.
CacheAfter(d, url, status, body) ==
    IF status = RateLimited \/ raise_for_status(status) THEN d
    ELSE dict_set(d, url, body)

\* requests.get answers: 429 sends the call to sleep, an error status raises,
\* anything else is stored and returned.
Answer(status, body) ==
    /\ pc = "fetching"
    /\ netLog' = Append(netLog, [url |-> cur, status |-> status, body |-> body])
    /\ cache' = CacheAfter(cache, cur, status, body)
    /\ IF status = RateLimited
       THEN /\ pc' = "sleeping"
            /\ rateLimits' = rateLimits + 1
            /\ outcome' = NoOutcome
       ELSE IF raise_for_status(status)
       THEN /\ pc' = "raising"
            /\ outcome' = Raised(status)
            /\ UNCHANGED rateLimits
       ELSE /\ pc' = "open"
            /\ outcome' = Returned(body)
            /\ UNCHANGED rateLimits
    /\ UNCHANGED <<cacheFile, cur, loaded, stored, writes, sleeps, exitKind,
                   sessions, calls>>
    /\ UNCHANGED <<linkerVars, searchVars>>

\* The API answers one of the first MaxNet requests of the session.
Respond(status, body) ==
    /\ Len(netLog) < MaxNet
    /\ Answer(status, body)

\* A pause that is not counted.
PausesNotCounted(n) == n

\* time.sleep(60) has been called once more.
Pauses(n) == n + 1

\* A retry that asks for another url than the one that was rate limited.
RetryOtherUrl(url) == CHOOSE other \in Urls : other # url

\* The url the call asks for again after time.sleep(60).
RetryUrl(url) == url

\* time.sleep(60) ends and __get_json calls itself with the same url.
Retry ==
    /\ pc = "sleeping"
    /\ sleeps' = Pauses(sleeps)
    /\ cur' = RetryUrl(cur)
    /\ IF CacheHit(cache, cur')
       THEN /\ outcome' = Returned(cache[cur'])
            /\ pc' = "open"
       ELSE /\ outcome' = NoOutcome
            /\ pc' = "fetching"
    /\ UNCHANGED <<cacheFile, cache, netLog, loaded, stored, writes,
                   rateLimits, exitKind, sessions, calls>>
    /\ UNCHANGED <<linkerVars, searchVars>>

\* The body of the with block raises something of its own.
BodyRaises ==
    /\ pc = "open"
    /\ pc' = "raising"
    /\ UNCHANGED <<cacheFile, cache, cur, outcome, netLog, loaded, stored,
                   writes, sleeps, rateLimits, exitKind, sessions, calls>>
    /\ UNCHANGED <<linkerVars, searchVars>>

\* An __exit__ that writes the cache only when the body completed.
ExitWritesOnSuccessOnly(raised) == ~raised

\* Does __exit__ write the cache file, given whether the body raised?
ExitWrites(raised) == TRUE

\* __exit__(exc_type, exc_val, exc_tb): the with statement runs it when the
\* body completes and when the body raises.
Exit ==
    /\ pc \in {"open", "raising"}
    /\ LET raised == (pc = "raising") IN
        /\ IF ExitWrites(raised)
           THEN /\ cacheFile' = [exists |-> TRUE, bytes |-> pickle_dump(cache)]
                /\ writes' = writes + 1
           ELSE UNCHANGED <<cacheFile, writes>>
        /\ exitKind' = IF raised THEN "raised" ELSE "normal"
    /\ stored' = cache
    /\ pc' = "closed"
    /\ UNCHANGED <<cache, cur, outcome, netLog, loaded, sleeps, rateLimits,
                   sessions, calls>>
    /\ UNCHANGED <<linkerVars, searchVars>>

NextClient ==
    \/ Enter
    \/ \E url \in Urls : GetJson(url)
    \/ \E status \in Statuses, body \in Bodies : Respond(status, body)
    \/ Retry
    \/ BodyRaises
    \/ Exit

SpecClient == InitClient /\ [][NextClient]_vars

(***************************************************************************)
(* Properties of the cached API client.                                    *)
(***************************************************************************)

\* The network contacts of this session for `url`, as positions of netLog.
NetContacts(url) == {i \in 1..Len(netLog) : netLog[i].url = url}

IsSuccess(status) == status # RateLimited /\ ~raise_for_status(status)

\* The contacts the API answered successfully.
Successes(url) == {i \in NetContacts(url) : IsSuccess(netLog[i].status)}

LastContact == netLog[Len(netLog)]

\* C1: within one session a url that was answered successfully is served
\* from the cache: the network answers each url successfully at most once,
\* it is never contacted for that url after the successful answer nor for a
\* url loaded at session start, and every return for the url gives the data
\* of that first answer.
C1_RepeatServedFromCache ==
    \A url \in Urls :
        /\ Cardinality(Successes(url)) <= 1
        /\ \A i \in Successes(url) : \A j \in NetContacts(url) : j <= i
        /\ url \in DOMAIN loaded => NetContacts(url) = {}
        /\ (cur = url /\ outcome.kind = "return") =>
              /\ \A i \in Successes(url) : outcome.body = netLog[i].body
              /\ url \in DOMAIN loaded => outcome.body = loaded[url]

\* The first session asked twice for the same url: one network contact, and
\* the second call returned the first answer.
C1_Witness ==
    /\ sessions = 1 /\ pc = "open" /\ calls = 2
    /\ Len(netLog) = 1 /\ netLog[1].status = 200
    /\ cur = netLog[1].url
    /\ outcome = Returned(netLog[1].body)

\* C2: what a closed session had cached is in the cache file, and a later
\* session on the same path holds it unchanged, answers it without any
\* network contact and returns the value stored.
C2_CacheRoundTrip ==
    /\ (pc = "closed" /\ sessions >= 1) =>
          /\ cacheFile.exists
          /\ pickle_load(cacheFile.bytes) = stored
    /\ pc # "closed" =>
          \A url \in DOMAIN stored :
              /\ url \in DOMAIN cache /\ cache[url] = stored[url]
              /\ NetContacts(url) = {}
              /\ cur = url => outcome = Returned(stored[url])

\* A later session asked for a url cached by an earlier one and got the
\* stored value without contacting the network.
C2_Witness ==
    /\ sessions >= 2 /\ pc = "open" /\ calls = 1
    /\ cur \in DOMAIN stored
    /\ netLog = <<>>
    /\ outcome = Returned(stored[cur])

\* C3: a session writes the cache file exactly once, at release, whether
\* its body completed or raised: no write while the session is open, one
\* write once it is closed, and the file then holds the cache.
C3_WrittenOnceAtRelease ==
    /\ pc # "closed" => writes = 0
    /\ (pc = "closed" /\ sessions >= 1) =>
          /\ writes = 1
          /\ exitKind \in {"normal", "raised"}
          /\ cacheFile = [exists |-> TRUE, bytes |-> pickle_dump(cache)]

\* A session whose body raised after a successful request is closed and has
\* written the file once.
C3_Witness ==
    /\ pc = "closed" /\ exitKind = "raised" /\ writes = 1
    /\ cache # EmptyDict
    /\ cacheFile.bytes # <<>>

RECURSIVE CacheFromLog(_)
CacheFromLog(n) ==
    IF n = 0 THEN loaded
    ELSE IF IsSuccess(netLog[n].status)
         THEN dict_set(CacheFromLog(n - 1), netLog[n].url, netLog[n].body)
         ELSE CacheFromLog(n - 1)

\* C5: an answer with an error status other than 429 makes the call raise
\* that error to its caller, which leaves the session, and stores nothing:
\* the url has no cache entry and the cache holds what it held before.
C5_HardErrorPropagates ==
    (netLog # <<>> /\ raise_for_status(LastContact.status)
                   /\ LastContact.status # RateLimited) =>
        /\ pc \in {"raising", "closed"}
        /\ pc = "closed" => exitKind = "raised"
        /\ outcome = Raised(LastContact.status)
        /\ LastContact.url \notin DOMAIN cache
        /\ cache = CacheFromLog(Len(netLog) - 1)

\* A request answered 404 is raising, after an earlier request had filled
\* the cache.
C5_Witness ==
    /\ pc = "raising"
    /\ Len(netLog) = 2
    /\ netLog[1].status = 200
    /\ LastContact.status = 404
    /\ outcome = Raised(404)
    /\ cache = (netLog[1].url :> netLog[1].body)

\* C6: when a hard API error ended the session, the cache file written at
\* release holds every entry loaded at session start and every response the
\* network answered successfully before the error.
C6_PartialResultsPersisted ==
    (pc = "closed" /\ exitKind = "raised" /\ outcome.kind = "raise") =>
        /\ cacheFile.exists
        /\ LET saved == pickle_load(cacheFile.bytes) IN
              /\ \A url \in DOMAIN loaded :
                    url \in DOMAIN saved /\ saved[url] = loaded[url]
              /\ \A url \in Urls : \A i \in Successes(url) :
                    url \in DOMAIN saved /\ saved[url] = netLog[i].body

\* A session that had loaded an entry and fetched another one was ended by
\* a hard error, and the file holds both.
C6_Witness ==
    /\ pc = "closed" /\ exitKind = "raised" /\ outcome.kind = "raise"
    /\ loaded # EmptyDict
    /\ \E url \in Urls : url \notin DOMAIN loaded /\ Successes(url) # {}
    /\ Cardinality(DOMAIN pickle_load(cacheFile.bytes)) = 2

(***************************************************************************)
(* Names and the name distance of author_info.py.  A string is a sequence  *)
(* of one-character strings.                                               *)
(***************************************************************************)

\* str.lower() on the letters the model uses.
LowerChar(c) ==
    CASE c = "A" -> "a"
      [] c = "B" -> "b"
      [] c = "C" -> "c"
      [] c = "D" -> "d"
      [] c = "J" -> "j"
      [] c = "K" -> "k"
      [] c = "L" -> "l"
      [] c = "S" -> "s"
      [] c = "W" -> "w"
      [] c = "X" -> "x"
      [] OTHER -> c

lower(s) == [k \in 1..Len(s) |-> LowerChar(s[k])]

\* str.split(" "): cut at every single space; two spaces in a row, or a
\* space at either end, give an empty section.
RECURSIVE split(_)
split(s) ==
    IF \A k \in 1..Len(s) : s[k] # " " THEN <<s>>
    ELSE LET k == CHOOSE j \in 1..Len(s) :
                      s[j] = " " /\ \A h \in 1..(j - 1) : s[h] # " "
         IN <<SubSeq(s, 1, k - 1)>> \o split(SubSeq(s, k + 1, Len(s)))

\* " ".join(parts)
RECURSIVE join(_)
join(parts) ==
    IF parts = <<>> THEN <<>>
    ELSE IF Len(parts) = 1 THEN parts[1]
    ELSE parts[1] \o <<" ">> \o join(Tail(parts))

\* re.match(r".*(?:^| ).[\.]?(?:$| ).*", name): some single character, with
\* an optional dot, stands between the start or a space and a space or the
\* end.
is_initialed(name) ==
    \E k \in 1..Len(name) :
        /\ k = 1 \/ name[k - 1] = " "
        /\ LET ends(j) == j = Len(name) + 1 \/ name[j] = " "
           IN \/ ends(k + 1)
              \/ k + 1 <= Len(name) /\ name[k + 1] = "." /\ ends(k + 2)

\* initialise_name raises IndexError on name_sec[0] of an empty section.
initialise_name_raises(name) ==
    LET name_sections == split(name)
    IN \E k \in 1..(Len(name_sections) - 1) : name_sections[k] = <<>>

\* initialise_name(name): every section but the last becomes its first
\* character and a dot.
initialise_name(name) ==
    LET name_sections == split(name)
        initials == [k \in 1..(Len(name_sections) - 1) |->
                        <<name_sections[k][1], ".">>]
    IN [name |-> join(initials \o <<name_sections[Len(name_sections)]>>),
        initials |-> initials]

Min2(a, b) == IF a <= b THEN a ELSE b

\* Levenshtein.distance(a, b): the edit distance, row by row.
RECURSIVE LevCells(_, _, _, _)
LevCells(prev, c, b, row) ==
    IF Len(row) = Len(b) + 1 THEN row
    ELSE LET j == Len(row)
         IN LevCells(prev, c, b,
                Append(row, Min2(Min2(prev[j + 1] + 1, row[j] + 1),
                                 prev[j] + (IF c = b[j] THEN 0 ELSE 1))))

\* Row i of the edit-distance table of a and b: position j + 1 holds the
\* distance of the first i characters of a and the first j of b.
RECURSIVE LevRow(_, _, _)
LevRow(a, b, i) ==
    IF i = 0 THEN [j \in 1..(Len(b) + 1) |-> j - 1]
    ELSE LevCells(LevRow(a, b, i - 1), a[i], b, <<i>>)

Levenshtein(a, b) == LevRow(a, b, Len(a))[Len(b) + 1]

\* name_distance(name1, name2)
name_distance(name1, name2) ==
    LET n1 == lower(name1)
        n2 == lower(name2)
    IN IF is_initialed(n1) \/ is_initialed(n2)
       THEN LET i1 == initialise_name(n1)
                i2 == initialise_name(n2)
            IN IF i1.initials = i2.initials
               THEN Levenshtein(i1.name, i2.name)
               ELSE Levenshtein(n1, n2)
       ELSE Levenshtein(n1, n2)

name_distance_raises(name1, name2) ==
    /\ is_initialed(lower(name1)) \/ is_initialed(lower(name2))
    /\ initialise_name_raises(lower(name1)) \/ initialise_name_raises(lower(name2))

(***************************************************************************)
(* get_author_data.                                                        *)
(***************************************************************************)

\* An absent author id (Python's None); the ids the API knows are 1, 2, ...
None == 0

\* The id strings of the API, by id.
AuthorIdStr ==
    << <<"7">>,
       <<"4", "2", "4", "2", "4">>,
       <<"i", "d", "1">>,
       <<"i", "d", "2">>,
       <<"i", "d", "3">>,
       <<"1", "7", "4", "1", "1", "0", "1">>,
       <<"2", "3", "3", "9", "9", "9", "1">>,
       <<"1", "4", "4", "7", "8", "3", "9", "0", "4">>,
       <<"8">>,
       <<"9">>,
       <<"1", "0">> >>

\* The ids of the records of a run.
AuthorIds == 1..2

\* Author names of the conference program, as scraped (lowercased).
LocalNames == { <<"a", "l">>, <<"b", "o", " ", "l", "i">> }

\* Author names as the external paper records list them.
ExternalNames == { <<"A", "l">>, <<"B", "o", " ", "L", "i">> }

\* The paper of three authors: its authorship names, the names its external
\* record lists, in the same order, and the ids the record may give them.
ThreeAuthorships ==
    << <<"j", " ", "s", "m", "i", "t", "h">>,
       <<"a", " ", "l", "e", "e">>,
       <<"k", " ", "c", "h", "e", "n">> >>
ThreeExternalNames ==
    << <<"J", "o", "h", "n", " ", "S", "m", "i", "t", "h">>,
       <<"A", "m", "y", " ", "L", "e", "e">>,
       <<"K", ".", " ", "C", "h", "e", "n">> >>
ThreeIds == { <<3, 4, 5>>, <<6, 7, 8>>, <<9, 10, 11>> }

\* Paper.from_author_names: the authorships of a paper, no id yet.
Authorships(names) ==
    [k \in 1..Len(names) |-> [author_name |-> names[k], author_id |-> None]]

NameLists == UNION {[1..n -> LocalNames] : n \in 1..MaxAuthorships}
PaperLists == UNION {[1..n -> NameLists] : n \in 1..MaxPapers}

NoPaper == [found |-> FALSE]

EmptyIdDict == [id \in {} |-> None]

\* The run starts: authors, seen_author_ids and corrected_ids are empty and
\* the loop is at the first paper.
InitLinker ==
    /\ \E names \in PaperLists :
          papers = [p \in 1..Len(names) |-> Authorships(names[p])]
    /\ authors = <<>>
    /\ seen_author_ids = {}
    /\ corrected_ids = EmptyIdDict
    /\ paper_idx = 1
    /\ paper_json = NoPaper
    /\ author_jsons = EmptyIdDict
    /\ lpc = "paper"
    \* no session of the client is modelled
    /\ cacheFile = NoFile
    /\ cache = EmptyDict
    /\ pc = "closed"
    /\ cur = "none"
    /\ outcome = NoOutcome
    /\ netLog = <<>>
    /\ loaded = EmptyDict
    /\ stored = EmptyDict
    /\ writes = 0
    /\ sleeps = 0
    /\ rateLimits = 0
    /\ exitKind = "none"
    /\ sessions = 0
    /\ calls = 0
    /\ SearchIdle

\* A loop that ends at the first paper it leaves.
AfterPaperStops(idx) == "done"

\* Where the loop over the papers goes after paper number idx.
AfterPaper(idx) == IF idx >= Len(papers) THEN "done" ELSE "paper"

\* query_engine.get_paper(paper) found no record: continue with the next
\* paper.
PaperNotFound ==
    /\ lpc = "paper"
    /\ paper_json' = NoPaper
    /\ paper_idx' = paper_idx + 1
    /\ lpc' = AfterPaper(paper_idx)
    /\ UNCHANGED <<papers, authors, seen_author_ids, corrected_ids,
                   author_jsons>>
    /\ UNCHANGED <<clientVars, searchVars>>

\* query_engine.get_paper(paper) returned a record listing `count` authors;
\* the loop of line 209 reads the entries one by one, and paper_json counts
\* those it has read.
PaperFound(count) ==
    /\ lpc = "paper"
    /\ paper_json' = [found |-> TRUE, count |-> count, read |-> 0]
    /\ IF count = 0
       THEN /\ paper_idx' = paper_idx + 1
            /\ lpc' = AfterPaper(paper_idx)
       ELSE /\ lpc' = "entry"
            /\ UNCHANGED paper_idx
    /\ UNCHANGED <<papers, authors, seen_author_ids, corrected_ids,
                   author_jsons>>
    /\ UNCHANGED <<clientVars, searchVars>>

\* Author.from_API_json(author_json): the Author of an author record.
from_API_json(author_json) == [author_id |-> author_json.authorId]

\* Line 211: is the author of this entry extracted?
NeedsExtract(author_id, seen) == author_id = None \/ author_id \notin seen

\* extract_author, lines 180-183: the id to fetch, `searched` being what
\* query_engine.search_author answered for the entry's name.
IdToFetch(author_id_json, searched) ==
    IF author_id_json.authorId = None THEN searched
    ELSE author_id_json.authorId

\* Line 218: the id added to seen_author_ids.
NewSeen(author_id, author) ==
    IF author_id # None THEN author_id ELSE author.author_id

\* Lines 221-222: the corrected ids after an author was extracted.
StoreCorrected(corrected, author_id, author) ==
    IF author_id # author.author_id
    THEN (author_id :> author.author_id) @@ corrected
    ELSE corrected

\* A correction that only fills in the id of an entry that had none.
CorrectIdOnlyMissing(corrected, author_id) ==
    IF author_id = None THEN corrected[None] ELSE author_id

\* Lines 225-226: the id after correction.
CorrectId(corrected, author_id) ==
    IF author_id \in DOMAIN corrected THEN corrected[author_id] ELSE author_id

\* A comparison of the authorship names with the name of the entry.
DistanceSubjectEntryName(author_id_json, author_id) == author_id_json.name

\* Line 232: what the authorship names are compared with.
DistanceSubject(author_id_json, author_id) == AuthorIdStr[author_id]

\* name_distance on the strings of the model, worked out once.
NameDistances ==
    [name1 \in {AuthorIdStr[id] : id \in DOMAIN AuthorIdStr} \cup ExternalNames,
     name2 \in LocalNames \cup {ThreeAuthorships[k] : k \in 1..3} |->
        name_distance(name1, name2)]

\* Line 232: the distance of every authorship of the paper, in the order of
\* paper.authorships.
Distances(authorships, subject) ==
    [k \in 1..Len(authorships) |->
        NameDistances[subject, authorships[k].author_name]]

\* A choice of the last authorship at the least distance.
MinDistAuthorshipLast(distances) ==
    CHOOSE k \in 1..Len(distances) :
        /\ \A h \in 1..Len(distances) : distances[k] <= distances[h]
        /\ \A h \in (k + 1)..Len(distances) : distances[h] > distances[k]

\* Line 233: min() over the distances gives the first authorship at the
\* least distance.
MinDistAuthorship(distances) ==
    CHOOSE k \in 1..Len(distances) :
        /\ \A h \in 1..Len(distances) : distances[k] <= distances[h]
        /\ \A h \in 1..(k - 1) : distances[h] > distances[k]

\* A threshold that lets a distance of 5 through.
CommitsUpToFive(count, authorships, distance) ==
    count = Len(authorships) \/ distance <= 5

\* Line 234: is the id written on the nearest authorship?
Commits(count, authorships, distance) ==
    count = Len(authorships) \/ distance < 5

\* Lines 232-235: the authorships of the paper after the entry.
Assign(authorships, author_id_json, author_id, count) ==
    LET subject == DistanceSubject(author_id_json, author_id)
        distances == Distances(authorships, subject)
        k == MinDistAuthorship(distances)
    IN IF Commits(count, authorships, distances[k])
       THEN [authorships EXCEPT ![k].author_id = author_id]
       ELSE authorships

\* One turn of the loop of line 209 on the next entry of the record.  The
\* API's part: the entry itself, `searched` (the answer of search_author when
\* the entry has no id, None for no match) and `answered` (the authorId of
\* the record get_author returns, the same for the same id all run long).
EntryStep(author_id_json, searched, answered) ==
    /\ lpc = "entry"
    /\ LET author_id == author_id_json.authorId
           extract == NeedsExtract(author_id, seen_author_ids)
           fetch_id == IdToFetch(author_id_json, searched)
           fetched == extract /\ fetch_id # None
           author == from_API_json([authorId |-> answered])
           read == paper_json.read + 1
           last == read = paper_json.count
       IN /\ author_id # None => searched = None
          /\ fetched /\ fetch_id \in DOMAIN author_jsons =>
                answered = author_jsons[fetch_id].authorId
          /\ ~fetched => answered = 1
          /\ paper_json' = [paper_json EXCEPT !.read = read]
          /\ paper_idx' = IF last THEN paper_idx + 1 ELSE paper_idx
          /\ lpc' = IF last THEN AfterPaper(paper_idx) ELSE "entry"
          /\ author_jsons' =
                IF fetched
                THEN (fetch_id :> [authorId |-> answered]) @@ author_jsons
                ELSE author_jsons
          /\ IF extract /\ ~fetched
             THEN \* failed to find author: continue
                  UNCHANGED <<papers, authors, seen_author_ids, corrected_ids>>
             ELSE /\ authors' =
                        IF extract THEN Append(authors, author) ELSE authors
                  /\ seen_author_ids' =
                        IF extract
                        THEN seen_author_ids \cup {NewSeen(author_id, author)}
                        ELSE seen_author_ids
                  /\ corrected_ids' =
                        IF extract
                        THEN StoreCorrected(corrected_ids, author_id, author)
                        ELSE corrected_ids
                  /\ papers' =
                        [papers EXCEPT ![paper_idx] =
                            Assign(@, author_id_json,
                                   CorrectId(corrected_ids', author_id),
                                   paper_json.count)]
    /\ UNCHANGED clientVars

\* The turn of the loop, the requests of extract_author left aside.
ProcessEntry(author_id_json, searched, answered) ==
    /\ EntryStep(author_id_json, searched, answered)
    /\ UNCHANGED searchVars

\* A request of the run is answered with a hard error: the exception leaves
\* get_author_data.
LinkerApiError ==
    /\ lpc \in {"paper", "entry"}
    /\ lpc' = "raised"
    /\ UNCHANGED <<papers, authors, seen_author_ids, corrected_ids, paper_idx,
                   paper_json, author_jsons>>
    /\ UNCHANGED <<clientVars, searchVars>>

ExternalEntries ==
    [authorId : AuthorIds \cup {None}, name : ExternalNames]

NextLinker ==
    \/ PaperNotFound
    \/ \E count \in 0..MaxExternalAuthors : PaperFound(count)
    \/ \E author_id_json \in ExternalEntries,
          searched \in AuthorIds \cup {None},
          answered \in AuthorIds :
          ProcessEntry(author_id_json, searched, answered)
    \/ LinkerApiError

SpecLinker == InitLinker /\ [][NextLinker]_vars

(***************************************************************************)
(* Properties of get_author_data.                                          *)
(***************************************************************************)

\* The ids written on the authorships of paper p.
IdsOfPaper(p) ==
    {papers[p][a].author_id : a \in 1..Len(papers[p])} \ {None}

AssignedIds == UNION {IdsOfPaper(p) : p \in 1..Len(papers)}

AuthorIdsReturned == {authors[k].author_id : k \in 1..Len(authors)}

\* C7: no two authorships of the same paper carry the same non-null
\* author_id, at any moment of the run and whatever the record lists.
C7_UniqueIdsPerPaper ==
    \A p \in 1..Len(papers) :
        \A a, b \in 1..Len(papers[p]) :
            (a # b /\ papers[p][a].author_id # None) =>
                papers[p][a].author_id # papers[p][b].author_id

\* The run is over; the paper has two authorships that carry two ids; its
\* record listed two authors; one id was found by a name search and one
\* replaced a superseded id.
C7_Witness ==
    /\ lpc = "done"
    /\ Len(papers[1]) = 2 /\ Cardinality(IdsOfPaper(1)) = 2
    /\ None \in DOMAIN corrected_ids
    /\ \E id \in AuthorIds : id \in DOMAIN corrected_ids /\ corrected_ids[id] # id
    /\ paper_json.found /\ paper_json.count = 2

\* C8: after a full run every Author of the output has its author_id on at
\* least one authorship.
C8_EveryAuthorIsAssigned ==
    lpc = "done" => AuthorIdsReturned \subseteq AssignedIds

\* C9: after a full run every non-null author_id written on an authorship
\* is the author_id of an Author of the output.
C9_AssignedIdsHaveAuthors ==
    lpc = "done" => AssignedIds \subseteq AuthorIdsReturned

\* The run is over; an id listed by a record was superseded, the final id
\* is on an authorship and the superseded one is on none.
C9_Witness ==
    /\ lpc = "done"
    /\ \E id \in AuthorIds :
          /\ id \in DOMAIN corrected_ids
          /\ corrected_ids[id] # id
          /\ corrected_ids[id] \in AssignedIds
          /\ id \notin AssignedIds

\* C10: the output holds at most one Author per author_id.
C10_OneAuthorPerId ==
    \A j, k \in 1..Len(authors) :
        j # k => authors[j].author_id # authors[k].author_id

\* C11: the author_id of an authorship is written at most once: an
\* authorship that carries an id keeps that id in every later step of the
\* run.
C11_WrittenAtMostOnce ==
    [][\A p \in 1..Len(papers) : \A a \in 1..Len(papers[p]) :
          papers[p][a].author_id # None =>
              papers'[p][a].author_id = papers[p][a].author_id]_vars

(***************************************************************************)
(* The search methods of the client: a query string is cleaned, put in the *)
(* request url, and the url is the key of the cache.                       *)
(***************************************************************************)

\* Searches made in one session.
MaxQueries == 3

\* The characters the pattern \w matches, among those the strings of the
\* model are made of: letters, digits and the underscore.
WordChars ==
    {"a", "b", "c", "d", "e", "f", "g", "h", "i", "j", "k", "l", "m", "n",
     "o", "p", "q", "r", "s", "t", "u", "v", "w", "x", "y", "z",
     "A", "B", "C", "D", "J", "K", "L", "S", "W", "X",
     "0", "1", "2", "3", "4", "5", "6", "7", "8", "9", "_"}

\* __clean_query(query): re.sub(r"[^\w]", "+", query)
clean_query(query) ==
    [k \in 1..Len(query) |-> IF query[k] \in WordChars THEN query[k] ELSE "+"]

\* search_paper, line 106: f"paper/search?query={query}&fields=authors,title"
PaperSearchUrl(query) ==
    <<"p", "a", "p", "e", "r", "/", "s", "e", "a", "r", "c", "h",
      "?", "q", "u", "e", "r", "y", "=">>
    \o query \o
    <<"&", "f", "i", "e", "l", "d", "s", "=", "a", "u", "t", "h",
      "o", "r", "s", ",", "t", "i", "t", "l", "e">>

\* A name search sent to the url of the paper search.
AuthorSearchUrlOfPapers(cleaned_name) == PaperSearchUrl(cleaned_name)

\* search_author_by_name, line 115:
\* f"author/search?query={cleaned_name}&fields=papers.authors&limit=20"
AuthorSearchUrl(cleaned_name) ==
    <<"a", "u", "t", "h", "o", "r", "/", "s", "e", "a", "r", "c",
      "h", "?", "q", "u", "e", "r", "y", "=">>
    \o cleaned_name \o
    <<"&", "f", "i", "e", "l", "d", "s", "=", "p", "a", "p", "e",
      "r", "s", ".", "a", "u", "t", "h", "o", "r", "s", "&", "l",
      "i", "m", "i", "t", "=", "2", "0">>

\* Query strings the callers pass: titles and names.
QueryStrings ==
    { <<"a", " ", "b">>,
      <<"a", "-", "b">>,
      <<"a", "+", "b">>,
      <<"a", "b">>,
      <<"a", "&", "b">> }

\* A session is open, nothing cached, no search made yet.
InitQuery ==
    /\ cacheFile = NoFile
    /\ cache = EmptyDict
    /\ pc = "open"
    /\ cur = "none"
    /\ outcome = NoOutcome
    /\ netLog = <<>>
    /\ loaded = EmptyDict
    /\ stored = EmptyDict
    /\ writes = 0
    /\ sleeps = 0
    /\ rateLimits = 0
    /\ exitKind = "none"
    /\ sessions = 1
    /\ calls = 0
    /\ papers = <<>>
    /\ authors = <<>>
    /\ seen_author_ids = {}
    /\ corrected_ids = <<>>
    /\ paper_idx = 0
    /\ paper_json = [found |-> FALSE]
    /\ author_jsons = <<>>
    /\ lpc = "idle"
    /\ SearchIdle

\* __get_json(url) from call to return or raise: a cached url returns at
\* once; otherwise, rate-limit answers and sleeps over, the API answers
\* `status` with `body`.  `call` is what the log of searches keeps.
GetJsonDone(url, status, body, call) ==
    /\ pc = "open"
    /\ status # RateLimited
    /\ LET hit == CacheHit(cache, url) IN
          /\ queries' = Append(queries,
                [endpoint |-> call.endpoint, query |-> call.query,
                 url |-> url, hit |-> hit])
          /\ cur' = url
          /\ calls' = calls + 1
          /\ IF hit
             THEN /\ outcome' = Returned(cache[url])
                  /\ UNCHANGED <<cache, netLog, pc>>
             ELSE /\ netLog' = Append(netLog,
                        [url |-> url, status |-> status, body |-> body])
                  /\ cache' = CacheAfter(cache, url, status, body)
                  /\ outcome' = IF raise_for_status(status)
                                THEN Raised(status) ELSE Returned(body)
                  /\ pc' = IF raise_for_status(status)
                           THEN "raising" ELSE "open"
    /\ UNCHANGED <<cacheFile, loaded, stored, writes, sleeps, rateLimits,
                   exitKind, sessions>>
    /\ UNCHANGED linkerVars

\* search_paper(query)
SearchPaper(query, status, body) ==
    /\ Len(queries) < MaxQueries
    /\ GetJsonDone(PaperSearchUrl(clean_query(query)), status, body,
                   [endpoint |-> "paper/search", query |-> query])
    /\ UNCHANGED <<matcherVars, authorVars, nameVars>>

\* search_author_by_name(author_name)
SearchAuthorByName(author_name, status, body) ==
    /\ Len(queries) < MaxQueries
    /\ GetJsonDone(AuthorSearchUrl(clean_query(author_name)), status, body,
                   [endpoint |-> "author/search", query |-> author_name])
    /\ UNCHANGED <<matcherVars, authorVars, nameVars>>

NextQuery ==
    \/ \E query \in QueryStrings, status \in Statuses, body \in Bodies :
          SearchPaper(query, status, body)
    \/ \E author_name \in QueryStrings, status \in Statuses, body \in Bodies :
          SearchAuthorByName(author_name, status, body)

SpecQuery == InitQuery /\ [][NextQuery]_vars

\* The search that filled the cache entry search number j was served from.
FilledBy(j) ==
    CHOOSE i \in 1..(j - 1) :
        queries[i].url = queries[j].url /\ ~queries[i].hit

\* C12 as stated: two distinct query strings never get the same cache key,
\* and a search served from the cache gets the response cached for the very
\* same query string.
C12_DistinctQueriesDistinctKeys ==
    /\ \A i, j \in 1..Len(queries) :
          queries[i].query # queries[j].query =>
              queries[i].url # queries[j].url
    /\ \A j \in 1..Len(queries) :
          queries[j].hit => queries[FilledBy(j)].query = queries[j].query

\* C12, amended: two searches get the same cache key only when they go to
\* the same endpoint with query strings that are equal once cleaned, and a
\* search served from the cache gets the response cached for such a search.
C12_SameKeyOnlyIfSameCleanedQuery ==
    /\ \A i, j \in 1..Len(queries) :
          queries[i].url = queries[j].url =>
              /\ queries[i].endpoint = queries[j].endpoint
              /\ clean_query(queries[i].query) = clean_query(queries[j].query)
    /\ \A j \in 1..Len(queries) :
          queries[j].hit =>
              /\ \E i \in 1..(j - 1) :
                    queries[i].url = queries[j].url /\ ~queries[i].hit
              /\ queries[FilledBy(j)].endpoint = queries[j].endpoint
              /\ clean_query(queries[FilledBy(j)].query)
                    = clean_query(queries[j].query)
              /\ j = Len(queries) =>
                    \E n \in 1..Len(netLog) :
                        /\ netLog[n].url = queries[j].url
                        /\ outcome = Returned(netLog[n].body)

\* Searches of both endpoints were made with the same string, and a paper
\* search was served from the cache entry of a different query string.
C12_Witness ==
    /\ Len(queries) = 3
    /\ queries[1].endpoint = "author/search"
    /\ queries[2].endpoint = "paper/search"
    /\ queries[1].query = queries[2].query
    /\ ~queries[2].hit
    /\ queries[3].hit
    /\ queries[3].query # queries[2].query
    /\ queries[3].url = queries[2].url

(***************************************************************************)
(* The paper matcher: SemanticScholarSearcher.search_paper of              *)
(* semantic_scholar.py and SemanticScholarQuerier.get_paper of             *)
(* author_info.py, the one get_author_data calls.                          *)
(***************************************************************************)

\* Titles of the conference program.
LocalTitles ==
    { <<"a">>,
      <<"a", " ", "b">>,
      <<"a", " ", "b", " ", "c">>,
      <<"a", " ", "b", " ", "c", " ", "d">>,
      <<"a", " ", "b", " ", "c", " ", "d", " ", "e">>,
      <<"a", " ", " ", "b", " ", "c">> }

\* Author names of a paper of the program, as scraped.
LocalAuthorLists ==
    { <<<<"A", "l">>>>, <<<<"B", "o", " ", "L", "i">>, <<"a", "l">>>> }

\* Paper.from_author_names: the Name converter of an Authorship lowercases
\* the name.
LocalPaper(paper_title, author_names) ==
    [title |-> paper_title,
     authorships |-> [k \in 1..Len(author_names) |-> lower(author_names[k])]]

\* The papers a search may list: a title and the names of the authors.
Candidates ==
    [title : { <<"A", " ", "b", " ", "c", " ", "z">>, <<"x", " ", "y">> },
     authors : { <<>>, <<<<"A", "l">>>>, <<<<"X", "a">>, <<"B", "o", " ", "L", "i">>>> }]

\* Candidates one search lists.
MaxCandidates == 2

CandidateLists == UNION {[1..n -> Candidates] : n \in 0..MaxCandidates}

\* The body of a paper search: total and data.
PaperSearchResponses ==
    {[total |-> Len(data), data |-> data] : data \in CandidateLists}

NoneResponse == [found |-> FALSE]
SomeResponse(candidate) == [found |-> TRUE, paper |-> candidate]

\* words[:3]
FirstThree(words) == SubSeq(words, 1, Min2(3, Len(words)))

\* A truncation that removes no word.
DropNone(words, n) == words

\* words[:-n]
DropLast(words, n) == SubSeq(words, 1, Len(words) - n)

\* _equal_titles / equal_titles
equal_titles(title1, title2) ==
    FirstThree(split(lower(title1))) = FirstThree(split(lower(title2)))

\* _shares_author / shares_author
shares_author(candidate, p) ==
    LET target_authors ==
            {p.authorships[a] : a \in 1..Len(p.authorships)}
    IN \E k \in 1..Len(candidate.authors) :
          lower(candidate.authors[k]) \in target_authors

\* A test that wants the title and an author to agree.
is_same_paper_both(candidate, p) ==
    equal_titles(candidate.title, p.title) /\ shares_author(candidate, p)

\* _is_same_paper / is_same_paper
is_same_paper(candidate, p) ==
    equal_titles(candidate.title, p.title) \/ shares_author(candidate, p)

\* A choice of the last candidate that matches.
match_last_candidate(p, candidates) ==
    IF \E k \in 1..Len(candidates) : is_same_paper(candidates[k], p)
    THEN SomeResponse(candidates[
            CHOOSE k \in 1..Len(candidates) :
                /\ is_same_paper(candidates[k], p)
                /\ \A h \in (k + 1)..Len(candidates) :
                      ~is_same_paper(candidates[h], p)])
    ELSE NoneResponse

\* _match_paper_to_candidates, and lines 141-148 of get_paper: the first
\* candidate that is the same paper, or None.
match_paper_to_candidates(p, candidates) ==
    IF \E k \in 1..Len(candidates) : is_same_paper(candidates[k], p)
    THEN SomeResponse(candidates[
            CHOOSE k \in 1..Len(candidates) :
                /\ is_same_paper(candidates[k], p)
                /\ \A h \in 1..(k - 1) : ~is_same_paper(candidates[h], p)])
    ELSE NoneResponse

\* A cascade that goes on until a search lists a candidate that is the same
\* paper.
NoResultsOrNoMatch(body) ==
    match_paper_to_candidates(paper, body.data) = NoneResponse

\* Did the search give no result?  search_paper looks at data, get_paper at
\* total.
NoResults(body) ==
    IF impl = "search_paper" THEN body.data = <<>> ELSE body.total = 0

\* f"{paper.title} {paper.authorships[0].author_name}"
title_with_author(p) == p.title \o <<" ">> \o p.authorships[1]

\* A range of truncations that goes one word further.
TruncationsOneMore(title_words) == 1..(Len(title_words) - 2)

\* range(1, len(title_words) - 2): the values of i in _get_paper_candidates.
Truncations(title_words) == 1..(Len(title_words) - 3)

\* One paper is about to be searched, in a session with nothing cached.
InitMatcher ==
    /\ impl \in {"search_paper", "get_paper"}
    /\ \E paper_title \in LocalTitles, author_names \in LocalAuthorLists :
          paper = LocalPaper(paper_title, author_names)
    /\ title = <<>>
    /\ trunc_i = 0
    /\ paper_candidates = <<>>
    /\ paper_response = NoneResponse
    /\ spc = "title"
    /\ queries = <<>>
    /\ cacheFile = NoFile
    /\ cache = EmptyDict
    /\ pc = "open"
    /\ cur = "none"
    /\ outcome = NoOutcome
    /\ netLog = <<>>
    /\ loaded = EmptyDict
    /\ stored = EmptyDict
    /\ writes = 0
    /\ sleeps = 0
    /\ rateLimits = 0
    /\ exitKind = "none"
    /\ sessions = 1
    /\ calls = 0
    /\ papers = <<>>
    /\ authors = <<>>
    /\ seen_author_ids = {}
    /\ corrected_ids = <<>>
    /\ paper_idx = 0
    /\ paper_json = [found |-> FALSE]
    /\ author_jsons = <<>>
    /\ lpc = "idle"
    /\ AuthorIdle
    /\ NameIdle

\* The request of the paper search for `query`.
PaperQuery(query, status, body) ==
    GetJsonDone(PaperSearchUrl(clean_query(query)), status, body,
                [endpoint |-> "paper/search", query |-> query])

\* The cascade is over with these candidates: the matcher returns the first
\* one that is the same paper.
Returns(candidates) ==
    /\ paper_candidates' = candidates
    /\ paper_response' = match_paper_to_candidates(paper, candidates)
    /\ spc' = "done"

\* get_paper, lines 135-136: return None.
ReturnsNone ==
    /\ paper_response' = NoneResponse
    /\ spc' = "done"
    /\ UNCHANGED paper_candidates

\* The request raised: the exception leaves the matcher.
Raises ==
    /\ spc' = "raised"
    /\ UNCHANGED <<paper_candidates, paper_response>>

\* The first search, for the title as it is.
QueryTitle(status, body) ==
    /\ spc = "title"
    /\ PaperQuery(paper.title, status, body)
    /\ IF outcome'.kind = "raise" THEN Raises
       ELSE IF ~NoResults(outcome'.body) THEN Returns(outcome'.body.data)
       ELSE /\ spc' = "with_author"
            /\ UNCHANGED <<paper_candidates, paper_response>>
    /\ UNCHANGED <<impl, paper, title, trunc_i>>
    /\ UNCHANGED <<authorVars, nameVars>>

\* The second search, for the title and the first author, and what follows
\* when it finds nothing: the first truncation, or the end.
QueryTitleWithAuthor(status, body) ==
    /\ spc = "with_author"
    /\ PaperQuery(title_with_author(paper), status, body)
    /\ LET title_words == split(paper.title) IN
       IF outcome'.kind = "raise"
       THEN Raises /\ UNCHANGED <<title, trunc_i>>
       ELSE IF ~NoResults(outcome'.body)
       THEN Returns(outcome'.body.data) /\ UNCHANGED <<title, trunc_i>>
       ELSE IF impl = "search_paper"
       THEN IF 1 \in Truncations(title_words)
            THEN /\ trunc_i' = 1
                 /\ spc' = "truncate"
                 /\ UNCHANGED <<title, paper_candidates, paper_response>>
            ELSE Returns(<<>>) /\ UNCHANGED <<title, trunc_i>>
       ELSE IF Len(title_words) < 3
            THEN ReturnsNone /\ UNCHANGED <<title, trunc_i>>
            ELSE /\ title' = join(DropLast(title_words, 1))
                 /\ spc' = "truncate"
                 /\ UNCHANGED <<trunc_i, paper_candidates, paper_response>>
    /\ UNCHANGED <<impl, paper>>
    /\ UNCHANGED <<authorVars, nameVars>>

\* The query of the next truncation.
TruncatedQuery ==
    IF impl = "search_paper"
    THEN join(DropLast(split(paper.title), trunc_i))
    ELSE title

\* A search for the truncated title, and what follows when it finds nothing:
\* one more word removed, or the end.
QueryTruncated(status, body) ==
    /\ spc = "truncate"
    /\ PaperQuery(TruncatedQuery, status, body)
    /\ IF outcome'.kind = "raise"
       THEN Raises /\ UNCHANGED <<title, trunc_i>>
       ELSE IF ~NoResults(outcome'.body)
       THEN Returns(outcome'.body.data) /\ UNCHANGED <<title, trunc_i>>
       ELSE IF impl = "search_paper"
       THEN IF trunc_i + 1 \in Truncations(split(paper.title))
            THEN /\ trunc_i' = trunc_i + 1
                 /\ UNCHANGED <<title, paper_candidates, paper_response, spc>>
            ELSE Returns(<<>>) /\ UNCHANGED <<title, trunc_i>>
       ELSE IF Len(split(title)) < 3
            THEN ReturnsNone /\ UNCHANGED <<title, trunc_i>>
            ELSE /\ title' = join(DropLast(split(title), 1))
                 /\ UNCHANGED <<trunc_i, paper_candidates, paper_response,
                                spc>>
    /\ UNCHANGED <<impl, paper>>
    /\ UNCHANGED <<authorVars, nameVars>>

NextMatcher ==
    \/ \E status \in Statuses, body \in PaperSearchResponses :
          QueryTitle(status, body)
    \/ \E status \in Statuses, body \in PaperSearchResponses :
          QueryTitleWithAuthor(status, body)
    \/ \E status \in Statuses, body \in PaperSearchResponses :
          QueryTruncated(status, body)

SpecMatcher == InitMatcher /\ [][NextMatcher]_vars

(***************************************************************************)
(* Properties of the paper matcher.                                        *)
(***************************************************************************)

\* The number of words of a query: the sections between its spaces.
WordCount(query) == Len(split(query))

\* C13: no search of the truncation (every search after the first two) has
\* a query of fewer than 3 words, and a cascade that found nothing in all
\* its searches reports the paper as not found.
C13_TruncationKeepsThreeWords ==
    /\ \A k \in 3..Len(queries) : WordCount(queries[k].query) >= 3
    /\ (spc = "done" /\ NoResults(netLog[Len(netLog)].body)) =>
          paper_response = NoneResponse

(***************************************************************************)
(* The author matcher: SemanticScholarSearcher.search_author_by_name of    *)
(* semantic_scholar.py and SemanticScholarQuerier.search_author of         *)
(* author_info.py.                                                         *)
(***************************************************************************)

\* Candidates one author search returns, and papers one candidate wrote.
MaxRetrieved == 2
MaxAuthoredPapers == 1

\* Ids of the authors the search may return.
RetrievedIds == 1..3

\* The authorId of every author of the external paper; None where the API
\* knows the name only, as for the author that is being resolved.
TargetPapers == { <<None>>, <<None, 1>>, <<None, 1, 2>>, <<None, None, 3>> }

\* AuthoredPaper.authors: the authorIds of a paper a candidate wrote.
AuthoredPapers == { <<1>>, <<None>>, <<None, None>>, <<1, 2>>, <<4, 5>> }

\* AuthorWithPapers
AuthorsWithPapers ==
    [authorId : RetrievedIds,
     papers : UNION {[1..n -> AuthoredPapers] : n \in 0..MaxAuthoredPapers}]

\* AuthorSearchResponse.data: candidates, each id once.
AuthorSearchData ==
    {data \in UNION {[1..n -> AuthorsWithPapers] : n \in 0..MaxRetrieved} :
        \A h, k \in 1..Len(data) :
            h # k => data[h].authorId # data[k].authorId}

\* The co-author ids of all the papers of a candidate, one after the other.
RECURSIVE all_coauthor_ids(_)
all_coauthor_ids(authored) ==
    IF authored = <<>> THEN <<>>
    ELSE authored[1] \o all_coauthor_ids(Tail(authored))

\* sum(co_author_id in paper_coauthors for co_author_id in all_coauthor_ids)
CountShared(author, paper_coauthors) ==
    LET ids == all_coauthor_ids(author.papers)
    IN Cardinality({k \in 1..Len(ids) : ids[k] \in paper_coauthors})

RECURSIVE ScoresFrom(_, _, _)
ScoresFrom(retrieved, paper_coauthors, keep_zero) ==
    IF retrieved = <<>> THEN <<>>
    ELSE LET score == CountShared(retrieved[1], paper_coauthors)
             rest == ScoresFrom(Tail(retrieved), paper_coauthors, keep_zero)
         IN IF score > 0 \/ keep_zero
            THEN <<[authorId |-> retrieved[1].authorId, score |-> score]>>
                 \o rest
            ELSE rest

\* The dict author_score when the loop is over.  _find_matching_author
\* (semantic_scholar.py, line 203) sets the score of every candidate;
\* search_author (author_info.py, lines 171-172) makes an entry when it
\* counts the first shared co-author of a candidate.
AuthorScore(retrieved, paper_coauthors) ==
    ScoresFrom(retrieved, paper_coauthors, impl = "search_author_by_name")

\* A choice of the last candidate at the highest score.
MaxScoreLast(scores) ==
    IF scores = <<>> THEN None
    ELSE scores[CHOOSE k \in 1..Len(scores) :
                    /\ \A h \in 1..Len(scores) : scores[h].score <= scores[k].score
                    /\ \A h \in (k + 1)..Len(scores) :
                          scores[h].score < scores[k].score].authorId

\* max(author_score, key=lambda x: author_score[x]) if author_score else
\* None: max() gives the first key at the highest score.
MaxScore(scores) ==
    IF scores = <<>> THEN None
    ELSE scores[CHOOSE k \in 1..Len(scores) :
                    /\ \A h \in 1..Len(scores) : scores[h].score <= scores[k].score
                    /\ \A h \in 1..(k - 1) :
                          scores[h].score < scores[k].score].authorId

\* An author reference without id is about to be resolved against the
\* external paper that lists it.
InitAuthorMatch ==
    /\ impl \in {"search_author_by_name", "search_author"}
    /\ target_paper \in TargetPapers
    /\ retrieved_authors = <<>>
    /\ author_score = <<>>
    /\ matching_author = None
    /\ apc = "call"
    /\ queries = <<>>
    /\ MatcherIdleOtherThanImpl
    /\ NameIdle
    /\ cacheFile = NoFile
    /\ cache = EmptyDict
    /\ pc = "open"
    /\ cur = "none"
    /\ outcome = NoOutcome
    /\ netLog = <<>>
    /\ loaded = EmptyDict
    /\ stored = EmptyDict
    /\ writes = 0
    /\ sleeps = 0
    /\ rateLimits = 0
    /\ exitKind = "none"
    /\ sessions = 1
    /\ calls = 0
    /\ papers = <<>>
    /\ authors = <<>>
    /\ seen_author_ids = {}
    /\ corrected_ids = <<>>
    /\ paper_idx = 0
    /\ paper_json = [found |-> FALSE]
    /\ author_jsons = <<>>
    /\ lpc = "idle"

\* search_author_by_name(author_name, paper) / search_author(author_name,
\* paper_json): the name is searched and the candidate that shares the most
\* co-authors with the paper is returned.
SearchAuthor(author_name, status, data) ==
    /\ apc = "call"
    /\ GetJsonDone(AuthorSearchUrl(clean_query(author_name)), status, data,
                   [endpoint |-> "author/search", query |-> author_name])
    /\ IF outcome'.kind = "raise"
       THEN /\ apc' = "raised"
            /\ UNCHANGED <<retrieved_authors, author_score, matching_author>>
       ELSE LET paper_coauthors ==
                    {target_paper[k] : k \in 1..Len(target_paper)}
                scores == AuthorScore(outcome'.body, paper_coauthors)
            IN /\ retrieved_authors' = outcome'.body
               /\ author_score' = scores
               /\ matching_author' = MaxScore(scores)
               /\ apc' = "done"
    /\ UNCHANGED <<target_paper, matcherVars, nameVars>>

NextAuthorMatch ==
    \E author_name \in ExternalNames, status \in Statuses,
       data \in AuthorSearchData :
        SearchAuthor(author_name, status, data)

SpecAuthorMatch == InitAuthorMatch /\ [][NextAuthorMatch]_vars

(***************************************************************************)
(* Properties of the author matcher.                                       *)
(***************************************************************************)

\* The ids of the authors of the external paper.
TargetIds == {target_paper[k] : k \in 1..Len(target_paper)}

\* How many authors of a candidate's papers are authors of the paper.
Overlap(candidate) ==
    LET coauthors == all_coauthor_ids(candidate.papers)
    IN Cardinality({k \in 1..Len(coauthors) : coauthors[k] \in TargetIds})

\* C14: resolving a reference without id returns none when the candidate
\* list is empty or no candidate has a positive overlap, and never returns
\* a candidate whose overlap is 0.
C14_NoneWithoutPositiveOverlap ==
    apc = "done" =>
        /\ (\A k \in 1..Len(retrieved_authors) :
                Overlap(retrieved_authors[k]) = 0) => matching_author = None
        /\ \A k \in 1..Len(retrieved_authors) :
              retrieved_authors[k].authorId = matching_author =>
                  Overlap(retrieved_authors[k]) > 0

(***************************************************************************)
(* The name distance: Name.distance of data.py, on Name objects, and       *)
(* name_distance of author_info.py, on strings.                            *)
(***************************************************************************)

\* Names as they are passed: scraped from the program or listed by the API.
NameStrings ==
    { <<"l", "i", "a", "m", " ", "w", "a", "t", "t", "s">>,
      <<"L", "i", "a", "m", " ", "W", "a", "t", "t", "s">>,
      <<"l", ".", " ", "w", "a", "t", "t", "s">>,
      <<"L", ".", " ", "W", "a", "t", "t", "s">>,
      <<"l", " ", "w", "a", "t", "t", "s">>,
      <<"d", ".", " ", "w", "a", "t", "t", "s">>,
      <<"l", "i", "f", "m", " ", "w", "f", "t", "t", "s">>,
      <<"s", "a", "u", "l">>,
      <<"l", " ", " ", "w", "a", "t", "t", "s">>,
      <<"l", "i", "a", "m", " ", " ", "w", "a", "t", "t", "s">>,
      <<"-", " ", "w", "a", "t", "t", "s">>,
      <<"-", "a", " ", "w", "a", "t", "t", "s">>,
      <<"l", "i", "a", "m", " ", " ", " ", "w", "a", "t", "t", "s">>,
      <<"l", "i", "a", "m", " ", " ">>,
      <<"l", "i", "a", "m", " ", "w">>,
      <<" ", "l", "i", "a", "m", " ">>,
      <<"l", "i", "a", "m", " ", "-", " ", "w", "a", "t", "t", "s">> }

\* The longer names of test_is_initialed, asked only whether they are
\* initialed.
InitialedExamples ==
    { <<"t", "e", "r", "e", "n", "c", "e", " ", "c", ".", " ", "s", ".", " ", "t", "a", "o">>,
      <<"t", "e", "r", "e", "n", "c", "e", " ", "c", "h", "i", "-", "s", "h", "e", "n", " ", "t", "a", "o">> }

Value(n) == [raised |-> FALSE, value |-> n]
RaisesIndexError == [raised |-> TRUE, value |-> 0]

\* Name.is_initialed: re.match(r".*(?:^| )\w[\.]?(?:$| ).*", self.name): a
\* single word character, with an optional dot, between the start or a
\* space and a space or the end.
Name_is_initialed(name) ==
    \E k \in 1..Len(name) :
        /\ k = 1 \/ name[k - 1] = " "
        /\ name[k] \in WordChars
        /\ LET ends(j) == j = Len(name) + 1 \/ name[j] = " "
           IN \/ ends(k + 1)
              \/ k + 1 <= Len(name) /\ name[k + 1] = "." /\ ends(k + 2)

\* Name.initialised(): part[0] of an empty part raises IndexError.
Name_initialised_raises(name) ==
    LET parts == split(name)
    IN \E k \in 1..(Len(parts) - 1) : parts[k] = <<>>

\* Name.initialised(): every part but the last becomes its first character
\* and a dot.
Name_initialised(name) ==
    LET parts == split(name)
        name_parts == SubSeq(parts, 1, Len(parts) - 1)
        last_name == parts[Len(parts)]
        initials == [k \in 1..Len(name_parts) |-> <<name_parts[k][1], ".">>]
    IN [name |-> join(initials \o <<last_name>>), initials |-> initials]

\* A distance that compares the initialed forms whatever the initials are.
Name_distance_any_initials(self, other) ==
    IF Name_is_initialed(self) \/ Name_is_initialed(other)
    THEN IF Name_initialised_raises(self) \/ Name_initialised_raises(other)
         THEN RaisesIndexError
         ELSE Value(Levenshtein(Name_initialised(self).name,
                                Name_initialised(other).name))
    ELSE Value(Levenshtein(self, other))

\* Name.distance(self, other), on the lowercased names the Name objects
\* hold.
Name_distance(self, other) ==
    IF Name_is_initialed(self) \/ Name_is_initialed(other)
    THEN IF Name_initialised_raises(self) \/ Name_initialised_raises(other)
         THEN RaisesIndexError
         ELSE LET initialed == Name_initialised(self)
                  other_initialed == Name_initialised(other)
              IN IF initialed.initials = other_initialed.initials
                 THEN Value(Levenshtein(initialed.name, other_initialed.name))
                 ELSE Value(Levenshtein(self, other))
    ELSE Value(Levenshtein(self, other))

\* name_distance(name1, name2) of author_info.py, with the IndexError of
\* initialise_name.
name_distance_outcome(n1, n2) ==
    IF name_distance_raises(n1, n2) THEN RaisesIndexError
    ELSE Value(name_distance(n1, n2))

\* Two names are about to be compared, or one name is about to be asked
\* whether it is initialed.
InitName ==
    /\ impl \in {"Name.distance", "name_distance"}
    /\ \/ /\ self_name \in NameStrings
          /\ other_name \in NameStrings
          /\ npc = "call"
       \/ /\ self_name \in NameStrings \cup InitialedExamples
          /\ other_name = <<>>
          /\ npc = "ask"
    /\ distance_result = Value(0)
    /\ initialed_result = FALSE
    /\ queries = <<>>
    /\ MatcherIdleOtherThanImpl
    /\ AuthorIdle
    /\ cacheFile = NoFile
    /\ cache = EmptyDict
    /\ pc = "closed"
    /\ cur = "none"
    /\ outcome = NoOutcome
    /\ netLog = <<>>
    /\ loaded = EmptyDict
    /\ stored = EmptyDict
    /\ writes = 0
    /\ sleeps = 0
    /\ rateLimits = 0
    /\ exitKind = "none"
    /\ sessions = 0
    /\ calls = 0
    /\ papers = <<>>
    /\ authors = <<>>
    /\ seen_author_ids = {}
    /\ corrected_ids = <<>>
    /\ paper_idx = 0
    /\ paper_json = [found |-> FALSE]
    /\ author_jsons = <<>>
    /\ lpc = "idle"

\* Name(self_name).distance(Name(other_name)): the Name converter
\* lowercases both names.
CallNameDistance ==
    /\ npc = "call"
    /\ impl = "Name.distance"
    /\ distance_result' = Name_distance(lower(self_name), lower(other_name))
    /\ npc' = "done"
    /\ UNCHANGED <<self_name, other_name, initialed_result>>
    /\ UNCHANGED <<clientVars, linkerVars, queries, matcherVars, authorVars>>

\* name_distance(self_name, other_name)
CallNameDistanceOfStrings ==
    /\ npc = "call"
    /\ impl = "name_distance"
    /\ distance_result' = name_distance_outcome(self_name, other_name)
    /\ npc' = "done"
    /\ UNCHANGED <<self_name, other_name, initialed_result>>
    /\ UNCHANGED <<clientVars, linkerVars, queries, matcherVars, authorVars>>

\* Name(self_name).is_initialed
CallIsInitialed ==
    /\ npc = "ask"
    /\ impl = "Name.distance"
    /\ initialed_result' = Name_is_initialed(lower(self_name))
    /\ npc' = "asked"
    /\ UNCHANGED <<self_name, other_name, distance_result>>
    /\ UNCHANGED <<clientVars, linkerVars, queries, matcherVars, authorVars>>

\* is_initialed(self_name) of author_info.py
CallIsInitialedOfString ==
    /\ npc = "ask"
    /\ impl = "name_distance"
    /\ initialed_result' = is_initialed(self_name)
    /\ npc' = "asked"
    /\ UNCHANGED <<self_name, other_name, distance_result>>
    /\ UNCHANGED <<clientVars, linkerVars, queries, matcherVars, authorVars>>

NextName ==
    \/ CallNameDistance
    \/ CallNameDistanceOfStrings
    \/ CallIsInitialed
    \/ CallIsInitialedOfString

SpecName == InitName /\ [][NextName]_vars

(***************************************************************************)
(* Properties of the name distance.                                        *)
(***************************************************************************)

\* Two strings are equal when letter case is ignored.
EqualUpToCase(a, b) ==
    /\ Len(a) = Len(b)
    /\ \A k \in 1..Len(a) : LowerChar(a[k]) = LowerChar(b[k])

\* C15: the distance of two names that are equal up to letter case is 0, in
\* particular the distance of a name to itself.
C15_EqualNamesAtDistanceZero ==
    (npc = "done" /\ EqualUpToCase(self_name, other_name)) =>
        distance_result = Value(0)

\* The names as the distance sees them.
SelfLowered == lower(self_name)
OtherLowered == lower(other_name)

\* Every part of the name before the last has a first character, so the
\* name has a sequence of initials.
HasInitialSequence(name) ==
    \A k \in 1..(Len(split(name)) - 1) : Len(split(name)[k]) > 0

\* The first characters of the parts before the last.
InitialSequence(name) ==
    [k \in 1..(Len(split(name)) - 1) |-> split(name)[k][1]]

\* The initials, each with a dot, and the last part, joined by spaces.
InitialedForm(name) ==
    LET parts == split(name)
    IN join([k \in 1..Len(parts) |->
                IF k < Len(parts) THEN <<parts[k][1], ".">> ELSE parts[k]])

\* is_initialed, as the implementation under check defines it.
Initialed(name) ==
    IF impl = "Name.distance" THEN Name_is_initialed(name)
    ELSE is_initialed(name)

DistanceOfId(id, authorships, k) ==
    NameDistances[AuthorIdStr[id], authorships[k].author_name]

Orders == {o \in [1..3 -> 1..3] : \A a, b \in 1..3 : a # b => o[a] # o[b]}

\* The authors field of the record: the three external names, each with its
\* id, listed in order o.
ThreeAuthorRecord(ids, o) ==
    [k \in 1..3 |-> [authorId |-> ids[o[k]], name |-> ThreeExternalNames[o[k]]]]

\* The run starts on the paper of three authors.
InitThreeAuthors ==
    /\ papers = <<Authorships(ThreeAuthorships)>>
    /\ authors = <<>>
    /\ seen_author_ids = {}
    /\ corrected_ids = EmptyIdDict
    /\ paper_idx = 1
    /\ paper_json = NoPaper
    /\ author_jsons = EmptyIdDict
    /\ lpc = "paper"
    /\ cacheFile = NoFile
    /\ cache = EmptyDict
    /\ pc = "closed"
    /\ cur = "none"
    /\ outcome = NoOutcome
    /\ netLog = <<>>
    /\ loaded = EmptyDict
    /\ stored = EmptyDict
    /\ writes = 0
    /\ sleeps = 0
    /\ rateLimits = 0
    /\ exitKind = "none"
    /\ sessions = 0
    /\ calls = 0
    /\ SearchIdle

\* query_engine.get_paper(paper) returns the record of the paper, with its
\* three authors.
ThreeAuthorPaperFound(ids, o) ==
    /\ lpc = "paper"
    /\ paper_json' = [found |-> TRUE, count |-> 3, read |-> 0,
                      authors |-> ThreeAuthorRecord(ids, o)]
    /\ lpc' = "entry"
    /\ UNCHANGED <<papers, authors, seen_author_ids, corrected_ids,
                   author_jsons, paper_idx>>
    /\ UNCHANGED <<clientVars, searchVars>>

\* One turn of the loop of line 209 on the next author of the record;
\* get_author answers each id with the record of that id.
ThreeAuthorEntry ==
    /\ lpc = "entry"
    /\ LET author_id_json == paper_json.authors[paper_json.read + 1]
       IN ProcessEntry(author_id_json, None, author_id_json.authorId)

NextThreeAuthors ==
    \/ PaperNotFound
    \/ \E ids \in ThreeIds, o \in Orders : ThreeAuthorPaperFound(ids, o)
    \/ ThreeAuthorEntry
    \/ LinkerApiError

SpecThreeAuthors == InitThreeAuthors /\ [][NextThreeAuthors]_vars

\* The id the record gives to the external author number k.
IdOfExternal(k) ==
    CHOOSE id \in DOMAIN AuthorIdStr :
        \E h \in 1..3 : paper_json.authors[h] =
                           [authorId |-> id, name |-> ThreeExternalNames[k]]

\* C18: after the run on the paper of authorships "j smith", "a lee",
\* "k chen", whose record lists "John Smith", "Amy Lee", "K. Chen" with three
\* ids, "j smith" carries the id of "John Smith", "a lee" that of "Amy Lee"
\* and "k chen" that of "K. Chen".
C18_EachIdOnNearestName ==
    (lpc = "done" /\ paper_json.found) =>
        \A k \in 1..3 :
            /\ papers[1][k].author_name = ThreeAuthorships[k]
            /\ papers[1][k].author_id = IdOfExternal(k)

(***************************************************************************)
(* Properties of the cascade of the paper matcher.                         *)
(***************************************************************************)

\* The title without its last n words.
WithoutLastWords(paper_title, n) ==
    LET words == split(paper_title)
    IN join([k \in 1..(Len(words) - n) |-> words[k]])

\* The query number k of the cascade for paper p.
CascadeQuery(p, k) ==
    IF k = 1 THEN p.title
    ELSE IF k = 2 THEN p.title \o <<" ">> \o p.authorships[1]
    ELSE WithoutLastWords(p.title, k - 2)

\* C19: the searches of the matcher are, in order, the title, the title
\* followed by the name of the first author, then the title without its
\* last word, without its last two words, and so on; and every search but
\* the last one issued was answered and listed no candidate: nothing is
\* searched after a search that lists candidates, accepted or not.
C19_CascadeOrderAndStop ==
    /\ \A k \in 1..Len(queries) :
          /\ queries[k].endpoint = "paper/search"
          /\ queries[k].query = CascadeQuery(paper, k)
    /\ \A k \in 1..(Len(queries) - 1) :
          /\ queries[k].url \in DOMAIN cache
          /\ cache[queries[k].url].data = <<>>
    /\ spc \in {"done", "raised"} => Len(queries) >= 1
    /\ (spc = "done" /\ paper_candidates # <<>>) =>
          /\ queries[Len(queries)].url \in DOMAIN cache
          /\ cache[queries[Len(queries)].url].data = paper_candidates

\* The first search listed candidates and none of them is the same paper:
\* the matcher is done after one search, with no paper, though the title has
\* words to remove.
C19_Witness ==
    /\ spc = "done"
    /\ Len(queries) = 1
    /\ paper_candidates # <<>>
    /\ paper_response = NoneResponse
    /\ Len(split(paper.title)) >= 4

\* The candidate and the paper have the same first three title words, case
\* apart.
SameFirstThreeWords(candidate, p) ==
    LET words == split(lower(candidate.title))
        target == split(lower(p.title))
    IN \A i \in 1..3 :
          /\ i <= Len(words) <=> i <= Len(target)
          /\ i <= Len(words) => words[i] = target[i]

\* An author of the candidate has, lowercased, the name of an authorship of
\* the paper.
HasAuthorOf(candidate, p) ==
    \E a \in 1..Len(candidate.authors), b \in 1..Len(p.authorships) :
        lower(candidate.authors[a]) = p.authorships[b]

Accepted(candidate, p) ==
    SameFirstThreeWords(candidate, p) \/ HasAuthorOf(candidate, p)

\* C20: the matcher returns the first candidate of the list, in the order of
\* the search, that has the first three title words of the paper or an
\* author of the paper, and none when no candidate has either.
C20_FirstAcceptedCandidate ==
    spc = "done" =>
        \/ /\ \A k \in 1..Len(paper_candidates) :
                 ~Accepted(paper_candidates[k], paper)
           /\ paper_response = [found |-> FALSE]
        \/ \E k \in 1..Len(paper_candidates) :
              /\ Accepted(paper_candidates[k], paper)
              /\ \A h \in 1..(k - 1) : ~Accepted(paper_candidates[h], paper)
              /\ paper_response =
                    [found |-> TRUE, paper |-> paper_candidates[k]]

\* The search listed two different candidates: the first has another title
\* and an author of the paper, the second has the title of the paper; the
\* matcher returned the first.
C20_Witness ==
    /\ spc = "done"
    /\ Len(paper_candidates) = 2
    /\ paper_candidates[1] # paper_candidates[2]
    /\ ~SameFirstThreeWords(paper_candidates[1], paper)
    /\ HasAuthorOf(paper_candidates[1], paper)
    /\ SameFirstThreeWords(paper_candidates[2], paper)
    /\ paper_response = [found |-> TRUE, paper |-> paper_candidates[1]]

\* How many authors of a candidate's papers carry the id of an author of the
\* paper: an absent id is no id.
DefiniteOverlap(candidate) ==
    LET coauthors == all_coauthor_ids(candidate.papers)
    IN Cardinality({k \in 1..Len(coauthors) :
                       coauthors[k] # None /\ coauthors[k] \in TargetIds})

\* C21: the candidate returned has the highest co-author overlap of the
\* candidates of the search; of two candidates of overlap 0 and 2 the second
\* is returned.
C21_HighestOverlapSelected ==
    apc = "done" =>
        /\ \A k \in 1..Len(retrieved_authors) :
              retrieved_authors[k].authorId = matching_author =>
                 \A h \in 1..Len(retrieved_authors) :
                    DefiniteOverlap(retrieved_authors[h])
                       <= DefiniteOverlap(retrieved_authors[k])
        /\ (/\ Len(retrieved_authors) = 2
            /\ DefiniteOverlap(retrieved_authors[1]) = 0
            /\ DefiniteOverlap(retrieved_authors[2]) = 2) =>
               matching_author = retrieved_authors[2].authorId

\* C27: the score the matcher gives a candidate is the number of authors of
\* the candidate's papers that carry the id of an author of the paper; an
\* absent id, on the paper or on a candidate's paper, adds nothing.
C27_AbsentIdsNotCounted ==
    apc = "done" =>
        \A k \in 1..Len(author_score) :
            \A h \in 1..Len(retrieved_authors) :
                retrieved_authors[h].authorId = author_score[k].authorId =>
                    author_score[k].score = DefiniteOverlap(retrieved_authors[h])

(***************************************************************************)
(* get_author_data with the requests it makes: extract_author's            *)
(* search_author and get_author calls are logged in queries.               *)
(***************************************************************************)

\* The requests of extract_author (lines 180-187) for an entry, in order:
\* a name search when the entry has no id, then the author record of the id
\* when there is one.  Nothing is requested for an id seen before (line 211).
\* A request is logged with its endpoint and the entry it is made for, a
\* record request with the id requested as well.
ExtractRequests(author_id_json, searched) ==
    LET author_id == author_id_json.authorId
        fetch_id == IdToFetch(author_id_json, searched)
        ref == [authorId |-> author_id, paper |-> paper_idx,
                entry |-> paper_json.read + 1]
    IN IF ~NeedsExtract(author_id, seen_author_ids) THEN <<>>
       ELSE (IF author_id = None
             THEN <<[endpoint |-> "author/search", ref |-> ref]>>
             ELSE <<>>)
            \o (IF fetch_id # None
                THEN <<[endpoint |-> "author", query |-> fetch_id,
                        ref |-> ref]>>
                ELSE <<>>)

\* A run on two papers of one author each: a first paper and a last one.
InitLinkerRequests ==
    /\ \E names \in [1..2 -> [1..1 -> LocalNames]] :
          papers = [p \in 1..Len(names) |-> Authorships(names[p])]
    /\ authors = <<>>
    /\ seen_author_ids = {}
    /\ corrected_ids = EmptyIdDict
    /\ paper_idx = 1
    /\ paper_json = NoPaper
    /\ author_jsons = EmptyIdDict
    /\ lpc = "paper"
    /\ cacheFile = NoFile
    /\ cache = EmptyDict
    /\ pc = "closed"
    /\ cur = "none"
    /\ outcome = NoOutcome
    /\ netLog = <<>>
    /\ loaded = EmptyDict
    /\ stored = EmptyDict
    /\ writes = 0
    /\ sleeps = 0
    /\ rateLimits = 0
    /\ exitKind = "none"
    /\ sessions = 0
    /\ calls = 0
    /\ SearchIdle

\* One turn of the loop of line 209, with the requests of extract_author.
ProcessEntryRequests(author_id_json, searched, answered) ==
    /\ EntryStep(author_id_json, searched, answered)
    /\ queries' = queries \o ExtractRequests(author_id_json, searched)
    /\ UNCHANGED <<matcherVars, authorVars, nameVars>>

NextLinkerRequests ==
    \/ PaperNotFound
    \/ \E count \in 0..MaxExternalAuthors : PaperFound(count)
    \/ \E author_id_json \in ExternalEntries,
          searched \in AuthorIds \cup {None},
          answered \in AuthorIds :
          ProcessEntryRequests(author_id_json, searched, answered)
    \/ LinkerApiError

SpecLinkerRequests == InitLinkerRequests /\ [][NextLinkerRequests]_vars

(***************************************************************************)
(* Properties of the requests of get_author_data.                          *)
(***************************************************************************)

\* C22: no name search is made for an entry that carries an id, the record
\* requested for such an entry is that of its id, and the record of an id
\* that an entry carries is requested at most once in the run.
C22_DefiniteIdFetchedOnce ==
    /\ \A k \in 1..Len(queries) :
          queries[k].ref.authorId # None =>
             /\ queries[k].endpoint = "author"
             /\ queries[k].query = queries[k].ref.authorId
    /\ \A j, k \in 1..Len(queries) :
          (/\ j < k
           /\ queries[j].endpoint = "author"
           /\ queries[k].endpoint = "author"
           /\ queries[j].ref.authorId # None \/ queries[k].ref.authorId # None)
          => queries[j].query # queries[k].query

\* The step skips the current paper: get_paper found no record for it.
SkipsPaper == lpc = "paper" /\ lpc' # "raised" /\ ~paper_json'.found

\* The step skips the current entry: its name was searched and no record
\* was requested.
SkipsEntry ==
    /\ lpc = "entry" /\ lpc' # "raised"
    /\ Len(queries') = Len(queries) + 1
    /\ queries'[Len(queries')].endpoint = "author/search"

\* Where the run is once the current paper is left.
NextPaperOrDone == IF paper_idx < Len(papers) THEN "paper" ELSE "done"

\* C23: a step that skips a paper without record, or an entry that cannot
\* be resolved, raises nothing, leaves every authorship and the authors as
\* they are, and takes the run to the next entry of the record, or to the
\* next paper of the input, or to its end after the last paper; a skipped
\* paper has no id on its authorships.
C23_SkipsWithoutRaising ==
    [][/\ SkipsPaper =>
            /\ papers' = papers /\ authors' = authors
            /\ \A a \in 1..Len(papers[paper_idx]) :
                  papers[paper_idx][a].author_id = None
            /\ paper_idx' = paper_idx + 1
            /\ lpc' = NextPaperOrDone
       /\ SkipsEntry =>
            /\ papers' = papers /\ authors' = authors
            /\ paper_json'.read = paper_json.read + 1
            /\ IF paper_json'.read < paper_json.count
               THEN paper_idx' = paper_idx /\ lpc' = "entry"
               ELSE paper_idx' = paper_idx + 1 /\ lpc' = NextPaperOrDone
       /\ lpc' = "done" => paper_idx' = Len(papers) + 1
      ]_vars

\* The run is over.  The first entry of the first paper's record could not
\* be resolved and the second one was; the paper has an id on its
\* authorship.  The second paper had no record: its authorship has no id.
C23_Witness ==
    /\ lpc = "done"
    /\ ~paper_json.found
    /\ Len(papers) = 2
    /\ papers[2][1].author_id = None
    /\ papers[1][1].author_id # None
    /\ \E k \in 1..Len(queries) :
          /\ queries[k].endpoint = "author/search"
          /\ queries[k].ref.paper = 1 /\ queries[k].ref.entry = 1
    /\ \A k \in 1..Len(queries) :
          queries[k].endpoint = "author" => queries[k].ref.entry = 2
    /\ Len(authors) = 1

C25_DistanceNeverRaises ==
    npc = "done" =>
        /\ ~distance_result.raised
        /\ distance_result.value \in Nat

\* ---------------------------------------------------------------------
\* C26: is_initialed is true exactly for the names that contain a token of
\* one character, optionally followed by a dot, delimited by spaces or the
\* ends of the string.
\* ---------------------------------------------------------------------

\* The name as the function under test receives it: the Name converter
\* lowercases, is_initialed of author_info.py takes the string as it is.
AskedName == IF impl = "Name.distance" THEN lower(self_name) ELSE self_name

\* Some part between spaces or string ends is one character, or one
\* character and a dot.
HasOneCharacterToken(name) ==
    \E k \in 1..Len(split(name)) :
        LET token == split(name)[k]
        IN \/ Len(token) = 1
           \/ Len(token) = 2 /\ token[2] = "."

\* C26: once is_initialed has answered, its answer is true exactly when the
\* name holds a one-character token, with or without a dot, between spaces
\* or string ends.
C26_InitialedIffOneCharacterToken ==
    npc = "asked" => (initialed_result <=> HasOneCharacterToken(AskedName))

(***************************************************************************)
(* The retry of __get_json in the first session of a process, under an API *)
(* that stops rate limiting.  After MaxNet answers the API answers every   *)
(* further request with a status other than 429; the sleep of a            *)
(* rate-limited call ends and every request sent is answered.              *)
(***************************************************************************)

\* The API answers a request sent after the first MaxNet answers: not with
\* 429.
RespondAtLast(status, body) ==
    /\ Len(netLog) >= MaxNet
    /\ status # RateLimited
    /\ Answer(status, body)

\* The first session of the process is entered.
EnterFirst ==
    /\ sessions = 0
    /\ Enter

NextClientFair ==
    \/ EnterFirst
    \/ \E url \in Urls : GetJson(url)
    \/ \E status \in Statuses, body \in Bodies : Respond(status, body)
    \/ \E status \in Statuses, body \in Bodies : RespondAtLast(status, body)
    \/ Retry
    \/ BodyRaises
    \/ Exit

\* time.sleep(60) returns and the call goes on (a sequential program); the
\* API answers every request it is sent.
SpecClientFair ==
    /\ InitClient
    /\ [][NextClientFair]_vars
    /\ WF_vars(Retry)
    /\ WF_vars(\E status \in Statuses, body \in Bodies :
                  Respond(status, body) \/ RespondAtLast(status, body))

\* A call of __get_json is asking the network or asleep.
InProgress == pc \in {"fetching", "sleeping"}

\* The rate-limit answers that stand directly before answer n of netLog.
RECURSIVE RateLimitsBefore(_, _)
RateLimitsBefore(log, n) ==
    IF n <= 1 \/ log[n - 1].status # RateLimited THEN 0
    ELSE 1 + RateLimitsBefore(log, n - 1)

\* The step in which a call in progress returns or raises.
Terminates ==
    /\ InProgress
    /\ pc' \in {"open", "raising"}

EverySearchEmpty ==
    \A k \in 1..Len(netLog) :
        /\ IsSuccess(netLog[k].status)
        /\ NoResults(netLog[k].body)

\* max(2, n), n the number of space-separated words of the title.
SearchLimit == IF WordCount(paper.title) > 2 THEN WordCount(paper.title) ELSE 2

\* C29: while every search returns zero results, each step of the matcher is
\* one more search, the matcher is still searching only while it has made
\* fewer than max(2, n) searches, n the number of space-separated words of
\* the title, so it ends after at most max(2, n) searches; it ends with no
\* paper and without raising; and every truncation search has strictly
\* fewer words than the search before it.
C29_TerminatesWithinWordCount ==
    /\ [](EverySearchEmpty =>
            /\ Len(queries) <= SearchLimit
            /\ spc \in {"title", "with_author", "truncate", "done"}
            /\ spc # "done" => Len(queries) < SearchLimit
            /\ spc = "done" =>
                  /\ paper_response = NoneResponse
                  /\ Len(queries) >= 2
            /\ \A k \in 3..Len(queries) :
                  WordCount(queries[k].query) < WordCount(queries[k - 1].query))
    /\ [][Len(queries') = Len(queries) + 1]_vars

\* get_paper searched a title of five words five times, down to two words,
\* found nothing and returned None.
C29_Witness ==
    /\ impl = "get_paper"
    /\ EverySearchEmpty
    /\ WordCount(paper.title) = 5
    /\ Len(queries) = 5
    /\ WordCount(queries[5].query) = 2
    /\ spc = "done"
    /\ paper_response = NoneResponse

\* ---------------------------------------------------------------------
\* C30: what the response cache of a session holds.
\* ---------------------------------------------------------------------

\* The entry of url was loaded from the cache file at session start.
LoadedEntry(url) == url \in DOMAIN loaded /\ cache[url] = loaded[url]

\* The entry of url is the body of a successful answer to a request for url.
FetchedEntry(url) == \E i \in Successes(url) : cache[url] = netLog[i].body

\* The step belongs to one session: no new session is entered in it.
WithinSession == sessions' = sessions

\* C30: every entry of the response cache is the body of a successful
\* answer to a request for exactly its url or an entry loaded from the cache
\* file at session start; an answer with status 429 or an error status
\* leaves the cache as it is; and within a session no entry is removed or
\* given another value.
C30_CacheHoldsSuccessfulBodies ==
    /\ [](\A url \in DOMAIN cache : LoadedEntry(url) \/ FetchedEntry(url))
    /\ [][(Len(netLog') = Len(netLog) + 1
             /\ ~IsSuccess(netLog'[Len(netLog')].status)) => cache' = cache]_vars
    /\ [][WithinSession =>
            \A url \in DOMAIN cache :
                url \in DOMAIN cache' /\ cache'[url] = cache[url]]_vars

\* A session was answered 429 and then 200 for one url and 404 for another:
\* its cache holds the 200 body under the first url and nothing else.
C30_Witness ==
    /\ pc = "raising"
    /\ Len(netLog) = 3
    /\ netLog[1].status = RateLimited
    /\ netLog[2].status = 200
    /\ netLog[3].status = 404
    /\ netLog[3].url # netLog[2].url
    /\ cache = (netLog[2].url :> netLog[2].body)

====
